---- MODULE Spec2Model ----
(***************************************************************************)
(* The command execution gateway of the AI assistant                       *)
(* (ai_assistant/services/erpnext_exec.py, class ERPNextExecutor) and the  *)
(* document service it calls (services/erpnext_api.py).                    *)
(*                                                                         *)
(* A Python str is a sequence of one-character strings, so that strip,     *)
(* split, startswith, "x in s" and upper/lower are computed on the text.   *)
(* A message built with an f-string is the sequence of its parts; the      *)
(* empty string is the empty sequence.                                     *)
(***************************************************************************)
EXTENDS Integers, Sequences, FiniteSets, TLC

(***************************************************************************)
(* str primitives                                                          *)
(***************************************************************************)
\* str.split() and str.strip() with no argument: the ASCII whitespace
Whitespace == {" ", "\t", "\n", "\r", "\f"}

LowerLetters ==
    <<"a","b","c","d","e","f","g","h","i","j","k","l","m",
      "n","o","p","q","r","s","t","u","v","w","x","y","z">>

UpperLetters ==
    <<"A","B","C","D","E","F","G","H","I","J","K","L","M",
      "N","O","P","Q","R","S","T","U","V","W","X","Y","Z">>

Digits == {"0","1","2","3","4","5","6","7","8","9"}

LetterIndex == DOMAIN LowerLetters

LowerSet == {LowerLetters[i] : i \in LetterIndex}

UpperSet == {UpperLetters[i] : i \in LetterIndex}

\* the regular expression class \w
WordChars == LowerSet \cup UpperSet \cup Digits \cup {"_"}

UpperOf == [c \in LowerSet |-> UpperLetters[CHOOSE i \in LetterIndex : LowerLetters[i] = c]]

LowerOf == [c \in UpperSet |-> LowerLetters[CHOOSE i \in LetterIndex : UpperLetters[i] = c]]

upper_char(c) == IF c \in LowerSet THEN UpperOf[c] ELSE c

lower_char(c) == IF c \in UpperSet THEN LowerOf[c] ELSE c

\* str.upper()
upper(s) == [i \in 1..Len(s) |-> upper_char(s[i])]

\* str.lower()
lower(s) == [i \in 1..Len(s) |-> lower_char(s[i])]

Min(S) == CHOOSE x \in S : \A y \in S : x <= y

RECURSIVE lstrip_chars(_, _)
lstrip_chars(s, chars) ==
    IF s # <<>> /\ Head(s) \in chars THEN lstrip_chars(Tail(s), chars) ELSE s

RECURSIVE rstrip_chars(_, _)
rstrip_chars(s, chars) ==
    IF s # <<>> /\ s[Len(s)] \in chars
    THEN rstrip_chars(SubSeq(s, 1, Len(s) - 1), chars)
    ELSE s

\* str.strip(chars)
strip_chars(s, chars) == rstrip_chars(lstrip_chars(s, chars), chars)

\* str.strip()
strip(s) == strip_chars(s, Whitespace)

\* the end of the run of characters of s that starts at i and stays in chars
\* (i - 1 when s[i] is not in chars)
RunEnd(s, i, chars) ==
    LET stops == {j \in i..Len(s) : s[j] \notin chars}
    IN  IF stops = {} THEN Len(s) ELSE Min(stops) - 1

\* the end of the run of characters that starts at i and stays out of chars
RunEndNot(s, i, chars) ==
    LET stops == {j \in i..Len(s) : s[j] \in chars}
    IN  IF stops = {} THEN Len(s) ELSE Min(stops) - 1

\* str.split(): the whitespace-delimited tokens
RECURSIVE split(_)
split(s) ==
    LET t == lstrip_chars(s, Whitespace)
    IN  IF t = <<>> THEN <<>>
        ELSE LET e == RunEndNot(t, 1, Whitespace)
             IN  <<SubSeq(t, 1, e)>> \o split(SubSeq(t, e + 1, Len(t)))

\* str.startswith(prefix)
startswith(s, prefix) ==
    Len(s) >= Len(prefix) /\ SubSeq(s, 1, Len(prefix)) = prefix

\* the positions at which sub occurs in s
Occurrences(s, sub) ==
    {i \in 1..(Len(s) - Len(sub) + 1) : SubSeq(s, i, i + Len(sub) - 1) = sub}

\* sub in s
contains(s, sub) == Occurrences(s, sub) # {}

\* s.split(sep, 1)[1]: what follows the first occurrence of sep
after_first(s, sep) ==
    SubSeq(s, Min(Occurrences(s, sep)) + Len(sep), Len(s))

ALLOWED_BENCH_COMMANDS ==
    { <<"v","e","r","s","i","o","n">>   \* version
    , <<"-","-","v","e","r","s","i","o","n">>   \* --version
    , <<"-","-","h","e","l","p">>   \* --help
    , <<"-","h">>   \* -h
    , <<"h","e","l","p">>   \* help
    , <<"l","i","s","t","-","a","p","p","s">>   \* list-apps
    , <<"g","e","t","-","c","o","n","f","i","g">>   \* get-config
    , <<"s","i","t","e","-","i","n","f","o">>   \* site-info
    , <<"g","e","t","-","d","o","c">>   \* get-doc
    , <<"s","e","t","-","v","a","l","u","e">>   \* set-value
    , <<"l","i","s","t","-","d","o","c","s">>   \* list-docs
    , <<"g","e","t","-","v","a","l","u","e">>   \* get-value
    , <<"n","e","w","-","d","o","c">>   \* new-doc
    , <<"d","e","l","e","t","e","-","d","o","c">>   \* delete-doc
    , <<"e","x","p","o","r","t","-","c","s","v">>   \* export-csv
    , <<"e","x","p","o","r","t","-","j","s","o","n">>   \* export-json
    , <<"i","m","p","o","r","t","-","c","s","v">>   \* import-csv
    , <<"i","m","p","o","r","t","-","j","s","o","n">>   \* import-json
    , <<"s","h","o","w","-","c","o","n","f","i","g">>   \* show-config
    , <<"d","o","c","t","o","r">>   \* doctor
    , <<"r","e","a","d","y","-","f","o","r","-","m","i","g","r","a","t","i","o","n">>   \* ready-for-migration
    , <<"l","i","s","t","-","u","s","e","r","s">>   \* list-users
    }

BLOCKED_ADMIN_COMMANDS ==
    { <<"m","i","g","r","a","t","e">>   \* migrate
    , <<"r","o","l","l","b","a","c","k","-","m","i","g","r","a","t","i","o","n">>   \* rollback-migration
    , <<"c","l","e","a","r","-","c","a","c","h","e">>   \* clear-cache
    , <<"c","l","e","a","r","-","w","e","b","s","i","t","e","-","c","a","c","h","e">>   \* clear-website-cache
    , <<"b","a","c","k","u","p">>   \* backup
    , <<"r","e","s","t","o","r","e">>   \* restore
    , <<"i","n","s","t","a","l","l","-","a","p","p">>   \* install-app
    , <<"u","n","i","n","s","t","a","l","l","-","a","p","p">>   \* uninstall-app
    , <<"u","p","d","a","t","e">>   \* update
    , <<"p","u","l","l">>   \* pull
    , <<"s","e","t","u","p">>   \* setup
    , <<"n","e","w","-","s","i","t","e">>   \* new-site
    , <<"d","r","o","p","-","s","i","t","e">>   \* drop-site
    , <<"r","e","i","n","s","t","a","l","l">>   \* reinstall
    , <<"b","e","n","c","h","-","u","p","d","a","t","e">>   \* bench-update
    , <<"r","e","s","t","a","r","t">>   \* restart
    , <<"s","t","a","r","t">>   \* start
    , <<"s","t","o","p">>   \* stop
    , <<"r","e","l","o","a","d","-","n","g","i","n","x">>   \* reload-nginx
    , <<"s","e","t","u","p","-","n","g","i","n","x">>   \* setup-nginx
    , <<"e","x","e","c","u","t","e">>   \* execute
    , <<"c","o","n","s","o","l","e">>   \* console
    , <<"m","a","r","i","a","d","b">>   \* mariadb
    , <<"a","d","d","-","u","s","e","r">>   \* add-user
    , <<"s","e","t","-","a","d","m","i","n","-","p","a","s","s","w","o","r","d">>   \* set-admin-password
    , <<"d","i","s","a","b","l","e","-","u","s","e","r">>   \* disable-user
    }

sql_keywords ==
    { <<"S","E","L","E","C","T">>   \* SELECT
    , <<"I","N","S","E","R","T">>   \* INSERT
    , <<"U","P","D","A","T","E">>   \* UPDATE
    , <<"D","E","L","E","T","E">>   \* DELETE
    , <<"C","R","E","A","T","E">>   \* CREATE
    , <<"D","R","O","P">>   \* DROP
    , <<"A","L","T","E","R">>   \* ALTER
    , <<"T","R","U","N","C","A","T","E">>   \* TRUNCATE
    , <<"S","H","O","W">>   \* SHOW
    , <<"D","E","S","C","R","I","B","E">>   \* DESCRIBE
    , <<"D","E","S","C">>   \* DESC
    , <<"E","X","P","L","A","I","N">>   \* EXPLAIN
    , <<"R","E","P","L","A","C","E">>   \* REPLACE
    , <<"M","E","R","G","E">>   \* MERGE
    , <<"C","A","L","L">>   \* CALL
    , <<"E","X","E","C","U","T","E">>   \* EXECUTE
    , <<"W","I","T","H">>   \* WITH
    , <<"U","N","I","O","N">>   \* UNION
    , <<"J","O","I","N">>   \* JOIN
    }

modification_keywords ==
    { <<"I","N","S","E","R","T">>   \* INSERT
    , <<"U","P","D","A","T","E">>   \* UPDATE
    , <<"D","E","L","E","T","E">>   \* DELETE
    , <<"C","R","E","A","T","E">>   \* CREATE
    , <<"D","R","O","P">>   \* DROP
    , <<"A","L","T","E","R">>   \* ALTER
    , <<"T","R","U","N","C","A","T","E">>   \* TRUNCATE
    }

information_keywords ==
    { <<"S","H","O","W">>   \* SHOW
    , <<"D","E","S","C","R","I","B","E">>   \* DESCRIBE
    , <<"D","E","S","C">>   \* DESC
    }

create_patterns ==
    { <<"c","r","e","a","t","e"," ">>   \* create 
    , <<"n","e","w"," ">>   \* new 
    , <<"i","n","s","e","r","t"," ">>   \* insert 
    }

read_patterns ==
    { <<"g","e","t"," ">>   \* get 
    , <<"r","e","a","d"," ">>   \* read 
    , <<"f","e","t","c","h"," ">>   \* fetch 
    , <<"f","i","n","d"," ">>   \* find 
    }

update_patterns ==
    { <<"u","p","d","a","t","e"," ">>   \* update 
    , <<"m","o","d","i","f","y"," ">>   \* modify 
    , <<"e","d","i","t"," ">>   \* edit 
    }

delete_patterns ==
    { <<"d","e","l","e","t","e"," ">>   \* delete 
    , <<"r","e","m","o","v","e"," ">>   \* remove 
    }

list_patterns ==
    { <<"l","i","s","t"," ">>   \* list 
    , <<"s","e","a","r","c","h"," ">>   \* search 
    }

BENCH == <<"b","e","n","c","h">>

BENCH_PREFIX == <<"b","e","n","c","h"," ">>

SITE_OPTION == <<"-","-","s","i","t","e">>

DEFAULT_SITE == <<"f","r","o","n","t","e","n","d","1">>

KW_WITH == <<"w","i","t","h">>

KW_SET == <<"s","e","t">>

KW_FOR == <<"f","o","r">>

KW_WHERE == <<"w","h","e","r","e">>

KW_SEARCH == <<"s","e","a","r","c","h">>

RE_UNION == <<"U","N","I","O","N">>

RE_SELECT == <<"S","E","L","E","C","T">>

RE_EXEC == <<"E","X","E","C">>

RE_XP == <<"X","P","_">>

RE_SP == <<"S","P","_">>

RE_FILE == <<"F","I","L","E">>

RE_INTO == <<"I","N","T","O">>

RE_OUTFILE == <<"O","U","T","F","I","L","E">>

RE_LOAD_FILE == <<"L","O","A","D","_","F","I","L","E">>

RE_LOAD == <<"L","O","A","D">>

RE_DATA == <<"D","A","T","A">>

ROW_COUNT_QUERY == <<"S","E","L","E","C","T"," ","R","O","W","_","C","O","U","N","T","(",")"," ","a","s"," ","a","f","f","e","c","t","e","d","_","r","o","w","s">>

(***************************************************************************)
(* Security screener and command classifier                                *)
(***************************************************************************)
\* the backquote character, which a TLA+ string cannot hold
Backquote == "BACKQUOTE"

SHELL_METACHARACTERS ==
    {";", "|", "&", "$", Backquote, ">", "<", "*", "?", "[", "]",
     "(", ")", "{", "}", "\\", "\"", "'", "\n", "\r"}

MaxCommandLength == 2000

\* a \b of the regular expressions: between position i - 1 and position i of s
word_boundary(s, i) ==
    (i > 1 /\ s[i - 1] \in WordChars) # (i <= Len(s) /\ s[i] \in WordChars)

\* w matches at position i of s under re.IGNORECASE
match_at(s, i, w) ==
    i + Len(w) - 1 <= Len(s) /\ upper(SubSeq(s, i, i + Len(w) - 1)) = w

\* the positions where \bw\b matches
word_matches(s, w) ==
    {i \in 1..Len(s) : word_boundary(s, i) /\ match_at(s, i, w) /\ word_boundary(s, i + Len(w))}

\* \bw1\s+w2\b matches somewhere in s
two_words_match(s, w1, w2) ==
    \E i \in 1..Len(s) :
        /\ word_boundary(s, i)
        /\ match_at(s, i, w1)
        /\ LET e == RunEnd(s, i + Len(w1), Whitespace)
           IN  /\ e >= i + Len(w1)
               /\ match_at(s, e + 1, w2)
               /\ word_boundary(s, e + 1 + Len(w2))

\* s[i..j] holds no line break: what the regular expression's . can cross
no_newline(s, i, j) == \A k \in i..j : s[k] # "\n"

\* r'--\s*$'
sql_comment_at_end(s) ==
    \E i \in 1..(Len(s) - 1) :
        /\ s[i] = "-" /\ s[i + 1] = "-"
        /\ \A k \in (i + 2)..Len(s) : s[k] \in Whitespace

\* r'/\*.*?\*/'
block_comment(s) ==
    \E i \in Occurrences(s, <<"/", "*">>), j \in Occurrences(s, <<"*", "/">>) :
        j >= i + 2 /\ no_newline(s, i + 2, j - 1)

\* r'\bUNION\b.*\bSELECT\b'
union_select(s) ==
    \E i \in word_matches(s, RE_UNION), j \in word_matches(s, RE_SELECT) :
        j >= i + Len(RE_UNION) /\ no_newline(s, i + Len(RE_UNION), j - 1)

\* the list suspicious_patterns, searched with re.IGNORECASE
suspicious(s) ==
    \/ sql_comment_at_end(s)
    \/ block_comment(s)
    \/ union_select(s)
    \/ word_matches(s, RE_EXEC) # {} \/ word_matches(s, RE_XP) # {} \/ word_matches(s, RE_SP) # {}
    \/ word_matches(s, RE_FILE) # {} \/ two_words_match(s, RE_INTO, RE_OUTFILE)
    \/ word_matches(s, RE_LOAD_FILE) # {} \/ two_words_match(s, RE_LOAD, RE_DATA)

\* the loop over SHELL_METACHARACTERS, a set of str: its iteration order differs
\* between processes (str hashes are salted), so any metacharacter of the command
\* may be the one that is found first and named
metacharacters_of(command) ==
    {ch \in SHELL_METACHARACTERS : contains(command, <<ch>>)}

\* _perform_security_checks: the verdicts the call can return
perform_security_checks(command) ==
    IF metacharacters_of(command) # {}
    THEN {[safe |-> FALSE,
           reason |-> "Shell metacharacter '" \o ch \o "' not allowed for security"]
          : ch \in metacharacters_of(command)}
    ELSE IF Len(command) > MaxCommandLength
    THEN {[safe |-> FALSE, reason |-> "Command too long (max 2000 characters)"]}
    ELSE IF suspicious(command)
    THEN {[safe |-> FALSE, reason |-> "Potentially dangerous pattern detected"]}
    ELSE {[safe |-> TRUE, reason |-> ""]}

\* _is_sql_command without the upper() of line 180
is_sql_command_case_sensitive(command) == split(strip(command))[1] \in sql_keywords

\* _is_sql_command
is_sql_command(command) == upper(split(strip(command))[1]) \in sql_keywords

\* _is_bench_command
is_bench_command(command) ==
    startswith(strip(command), BENCH_PREFIX) \/ strip(command) \in ALLOWED_BENCH_COMMANDS

api_patterns ==
    create_patterns \cup read_patterns \cup update_patterns \cup delete_patterns \cup list_patterns

\* _is_api_command
is_api_command(command) ==
    \E pattern \in api_patterns : startswith(strip(lower(command)), pattern)

(***************************************************************************)
(* Results                                                                 *)
(***************************************************************************)
\* the text of a str, for the messages that embed one
RECURSIVE text(_)
text(s) == IF s = <<>> THEN "" ELSE s[1] \o text(Tail(s))

\* _error_result
error_result(error_message, execution_time) ==
    [success |-> FALSE, output |-> "", error |-> error_message,
     executionTime |-> execution_time]

(***************************************************************************)
(* SQL execution engine: frappe.db is the query backend.  A call is        *)
(* recorded as [op, stmt, as_dict, raised]; faults is the set of backend   *)
(* calls that raise in this invocation.                                    *)
(***************************************************************************)
db_call(op, stmt, as_dict, raised) ==
    [op |-> op, stmt |-> stmt, as_dict |-> as_dict, raised |-> raised]

\* str(e) of the exception a backend call raises
db_message(op) == "db." \o op \o " raised"

\* _format_sql_result, of a result of n rows (dicts under as_dict, else tuples)
format_sql_result(n, as_dict) ==
    IF n = 0 THEN "No results found."
    ELSE IF as_dict THEN "json rows: " \o ToString(n)
    ELSE "table rows: " \o ToString(n)

\* the statements that run in a transaction, lines 231-243
in_transaction(first_word) == first_word \in modification_keywords

\* lines 233-243: begin, then the statement, commit and the row count query inside
\* the inner try, whose handler rolls back and raises again
execute_modification(command, faults, rows, t) ==
    LET names == <<"sql", "commit", "row_count">>
        steps == << db_call("sql", command, FALSE, "sql" \in faults),
                    db_call("commit", <<>>, FALSE, "commit" \in faults),
                    db_call("sql", ROW_COUNT_QUERY, TRUE, "row_count" \in faults) >>
        failing == {k \in DOMAIN names : names[k] \in faults}
        begin == db_call("begin", <<>>, FALSE, "begin" \in faults)
        rollback == db_call("rollback", <<>>, FALSE, "rollback" \in faults)
    IN  IF "begin" \in faults
        THEN [result |-> error_result("SQL error: " \o db_message("begin"), t),
              db |-> <<begin>>]
        ELSE IF failing # {}
        THEN [result |-> error_result("SQL error: " \o
                            (IF "rollback" \in faults THEN db_message("rollback")
                             ELSE db_message(names[Min(failing)])), t),
              db |-> <<begin>> \o SubSeq(steps, 1, Min(failing)) \o <<rollback>>]
        ELSE [result |-> [success |-> TRUE,
                          output |-> "Command executed successfully. Affected rows: " \o
                                     (IF rows > 0 THEN ToString(rows) ELSE "Unknown"),
                          error |-> "",
                          executionTime |-> t],
              db |-> <<begin>> \o steps]

\* lines 245-253 with an error that leaves out str(e)
execute_query_without_message(command, as_dict, faults, rows, t) ==
    [result |-> IF "sql" \in faults
                THEN error_result("SQL error", t)
                ELSE [success |-> TRUE, output |-> format_sql_result(rows, as_dict),
                      error |-> "", executionTime |-> t],
     db |-> <<db_call("sql", command, as_dict, "sql" \in faults)>>]

\* lines 245-253: one call of frappe.db.sql, its rows formatted
execute_query(command, as_dict, faults, rows, t) ==
    [result |-> IF "sql" \in faults
                THEN error_result("SQL error: " \o db_message("sql"), t)
                ELSE [success |-> TRUE, output |-> format_sql_result(rows, as_dict),
                      error |-> "", executionTime |-> t],
     db |-> <<db_call("sql", command, as_dict, "sql" \in faults)>>]

\* frappe.get_single("AI Assistant Settings") and its confirm_sql_operations, as
\* line 210 reads them: "raise" when the read raises
read_confirm_setting(stored, readable) ==
    IF ~readable THEN "raise" ELSE IF stored THEN "on" ELSE "off"

\* the gate with the "not" of line 208 dropped
confirmation_required_when_forced(force_execute, settings) ==
    force_execute /\ settings = "on"

\* the gate without the force_execute test of line 208
confirmation_required_ignoring_force(force_execute, settings) ==
    settings = "on"

\* lines 208-224: the confirmation gate; a read that raises is passed over
confirmation_required(force_execute, settings) ==
    ~force_execute /\ settings = "on"

\* lines 212-221 with the statement echoed in upper case
confirmation_result_echoing_upper_case(command, t) ==
    [success |-> FALSE, output |-> "", error |-> "SQL command requires user confirmation",
     requires_confirmation |-> TRUE, command |-> upper(command), command_type |-> "sql",
     description |-> "Execute SQL: " \o text(command), executionTime |-> t]

\* the result of lines 212-221
confirmation_result(command, t) ==
    [success |-> FALSE, output |-> "", error |-> "SQL command requires user confirmation",
     requires_confirmation |-> TRUE, command |-> command, command_type |-> "sql",
     description |-> "Execute SQL: " \o text(command), executionTime |-> t]

\* lines 231-253: the statement run against the backend
run_statement(command, faults, rows, t) ==
    LET first_word == upper(split(strip(command))[1])
    IN  IF in_transaction(first_word)
        THEN execute_modification(command, faults, rows, t)
        ELSE IF first_word \in information_keywords
        THEN execute_query(command, FALSE, faults, rows, t)
        ELSE execute_query(command, TRUE, faults, rows, t)

\* _execute_sql_command: the result, the backend calls and what the reads of the
\* settings returned; settings_read is what line 210-211 would read
execute_sql_command(command, force_execute, settings_read, faults, rows, t) ==
    LET reads == IF force_execute THEN <<>> ELSE <<settings_read>>
    IN  IF confirmation_required(force_execute, settings_read)
        THEN [result |-> confirmation_result(command, t), db |-> <<>>, reads |-> reads]
        ELSE [result |-> run_statement(command, faults, rows, t).result,
              db |-> run_statement(command, faults, rows, t).db,
              reads |-> reads]

(***************************************************************************)
(* Tool command gate: subprocess.run is the process runner                 *)
(***************************************************************************)
\* the default of the constructor's timeout parameter, in seconds
DefaultTimeout == 30

\* shlex's whitespace
ShlexWhitespace == {" ", "\t", "\r", "\n"}

\* shlex.split of a text without quotes, backslashes or line breaks, which is all
\* that passes the screener: the tokens between runs of shlex's whitespace
RECURSIVE shlex_split(_)
shlex_split(s) ==
    LET t == lstrip_chars(s, ShlexWhitespace)
    IN  IF t = <<>> THEN <<>>
        ELSE LET e == RunEndNot(t, 1, ShlexWhitespace)
             IN  <<SubSeq(t, 1, e)>> \o shlex_split(SubSeq(t, e + 1, Len(t)))

Range(seq) == {seq[i] : i \in DOMAIN seq}

\* the fixed safe_patterns, each anchored at both ends
safe_patterns ==
    { <<"-","-","h","e","l","p">>, <<"-","h">>, <<"v","e","r","s","i","o","n">>,
      <<"-","-","v","e","r","s","i","o","n">>, SITE_OPTION }

\* _is_allowed_bench_command
is_allowed_bench_command(cmd_parts) ==
    IF cmd_parts = <<>> THEN FALSE
    ELSE IF cmd_parts[1] \in BLOCKED_ADMIN_COMMANDS THEN FALSE
    ELSE IF cmd_parts[1] \in ALLOWED_BENCH_COMMANDS THEN TRUE
    ELSE IF cmd_parts[1] \in safe_patterns THEN TRUE
    ELSE IF Len(cmd_parts) >= 3 /\ cmd_parts[1] = SITE_OPTION
    THEN cmd_parts[3] \in ALLOWED_BENCH_COMMANDS /\ cmd_parts[3] \notin BLOCKED_ADMIN_COMMANDS
    ELSE FALSE

\* lines 282-285: the argv before the site context
parse_bench_command(command) ==
    IF startswith(command, BENCH_PREFIX)
    THEN shlex_split(command)
    ELSE <<BENCH>> \o shlex_split(command)

\* lines 289-292: --site and the site name inserted after 'bench'
insert_site(cmd_parts, site) ==
    IF Len(cmd_parts) > 1 /\ cmd_parts[2] # SITE_OPTION
    THEN <<cmd_parts[1], SITE_OPTION, site>> \o SubSeq(cmd_parts, 2, Len(cmd_parts))
    ELSE cmd_parts

\* line 295 without the skip of the site arguments
command_args_with_site(cmd_parts) == SubSeq(cmd_parts, 2, Len(cmd_parts))

\* line 295: the arguments that are validated
command_args(cmd_parts) ==
    IF SITE_OPTION \in Range(cmd_parts)
    THEN SubSeq(cmd_parts, 4, Len(cmd_parts))
    ELSE SubSeq(cmd_parts, 2, Len(cmd_parts))

\* the argv _execute_bench_command builds for a command
bench_argv(command, site) == insert_site(parse_bench_command(command), site)

\* what the runner, or frappe.get_site_path before it, can do: exit with a code
\* and the captured streams, time out (TimeoutExpired holds what was captured until
\* then), or raise another exception.  The streams hold whatever the child wrote,
\* the words of the gate's own messages included.
proc_outcome(kind, returncode, stdout, stderr) ==
    [kind |-> kind, returncode |-> returncode, stdout |-> stdout, stderr |-> stderr]

ProcOutcomes ==
    {proc_outcome("exit", rc, out, err) :
        rc \in {0, 1}, out \in {"", "out"}, err \in {"", "err", "Command timed out"}}
    \cup {proc_outcome("timeout", 0, out, err) : out \in {"", "out"}, err \in {"", "err"}}
    \cup {          proc_outcome("raise", 0, "", ""),
          proc_outcome("site_path_raise", 0, "", "")}

\* lines 310-323: the result of a run that ended
run_result(outcome, t) ==
    IF outcome.returncode = 0
    THEN [success |-> TRUE, output |-> outcome.stdout, error |-> outcome.stderr,
          executionTime |-> t]
    ELSE [success |-> FALSE, output |-> outcome.stdout,
          error |-> IF outcome.stderr # "" THEN outcome.stderr ELSE "Command failed",
          executionTime |-> t]

\* _execute_bench_command: the result and the calls of subprocess.run, each with
\* what the runner did
execute_bench_command(command, site, timeout, outcome, t) ==
    LET cmd_parts == bench_argv(command, site)
        call == [argv |-> cmd_parts, timeout |-> timeout, outcome |-> outcome]
    IN  IF ~is_allowed_bench_command(command_args(cmd_parts))
        THEN [result |-> error_result("Bench command not allowed", t), proc |-> <<>>]
        ELSE IF outcome.kind = "site_path_raise"
        THEN [result |-> error_result("Execution error: get_site_path raised", t),
              proc |-> <<>>]
        ELSE IF outcome.kind = "timeout"
        THEN [result |-> error_result("Command timed out", t), proc |-> <<call>>]
        ELSE IF outcome.kind = "raise"
        THEN [result |-> error_result("Execution error: subprocess.run raised", t),
              proc |-> <<call>>]
        ELSE [result |-> run_result(outcome, t), proc |-> <<call>>]

(***************************************************************************)
(* Document store: ERPNextAPIService with use_rest_api = False.  outcome   *)
(* is what frappe does under the call: "ok", "not_found" (frappe.db.exists *)
(* is false), "denied" (frappe.has_permission is false) or "raise".        *)
(***************************************************************************)
api_call(op, doctype, name, data, term, limit) ==
    [op |-> op, doctype |-> doctype, name |-> name, data |-> data, term |-> term,
     limit |-> limit]

\* create, list and search do not ask frappe.db.exists: to them "not_found" is "ok"
ApiOutcomes == {"ok", "not_found", "denied", "raise"}

\* create_document and _create_document_direct
create_document(doctype, outcome) ==
    IF outcome = "raise"
    THEN [success |-> FALSE, error |-> "Failed to create " \o text(doctype) \o ": raised"]
    ELSE IF outcome = "denied"
    THEN [success |-> FALSE, error |-> "No permission to create " \o text(doctype)]
    ELSE [success |-> TRUE, data |-> "doc", name |-> "new name",
          message |-> text(doctype) \o " created successfully"]

\* get_document and _get_document_direct
get_document(doctype, name, outcome) ==
    IF outcome = "raise"
    THEN [success |-> FALSE,
          error |-> "Failed to get " \o text(doctype) \o " " \o text(name) \o ": raised"]
    ELSE IF outcome = "not_found"
    THEN [success |-> FALSE, error |-> text(doctype) \o " " \o text(name) \o " not found"]
    ELSE IF outcome = "denied"
    THEN [success |-> FALSE,
          error |-> "No permission to read " \o text(doctype) \o " " \o text(name)]
    ELSE [success |-> TRUE, data |-> "doc"]

\* update_document and _update_document_direct
update_document(doctype, name, outcome) ==
    IF outcome = "raise"
    THEN [success |-> FALSE,
          error |-> "Failed to update " \o text(doctype) \o " " \o text(name) \o ": raised"]
    ELSE IF outcome = "not_found"
    THEN [success |-> FALSE, error |-> text(doctype) \o " " \o text(name) \o " not found"]
    ELSE IF outcome = "denied"
    THEN [success |-> FALSE,
          error |-> "No permission to update " \o text(doctype) \o " " \o text(name)]
    ELSE [success |-> TRUE, data |-> "doc",
          message |-> text(doctype) \o " " \o text(name) \o " updated successfully"]

\* delete_document and _delete_document_direct
delete_document(doctype, name, outcome) ==
    IF outcome = "raise"
    THEN [success |-> FALSE,
          error |-> "Failed to delete " \o text(doctype) \o " " \o text(name) \o ": raised"]
    ELSE IF outcome = "not_found"
    THEN [success |-> FALSE, error |-> text(doctype) \o " " \o text(name) \o " not found"]
    ELSE IF outcome = "denied"
    THEN [success |-> FALSE,
          error |-> "No permission to delete " \o text(doctype) \o " " \o text(name)]
    ELSE [success |-> TRUE,
          message |-> text(doctype) \o " " \o text(name) \o " deleted successfully"]

\* list_documents and _list_documents_direct
list_documents(doctype, outcome) ==
    IF outcome = "raise"
    THEN [success |-> FALSE, error |-> "Failed to list " \o text(doctype) \o ": raised"]
    ELSE IF outcome = "denied"
    THEN [success |-> FALSE, error |-> "No permission to read " \o text(doctype)]
    ELSE [success |-> TRUE, data |-> "docs", count |-> "len(docs)"]

\* search_documents and _search_documents_direct
search_documents(doctype, outcome) ==
    IF outcome = "raise"
    THEN [success |-> FALSE, error |-> "Failed to search " \o text(doctype) \o ": raised"]
    ELSE IF outcome = "denied"
    THEN [success |-> FALSE, error |-> "No permission to read " \o text(doctype)]
    ELSE [success |-> TRUE, data |-> "docs", count |-> "len(docs)"]

\* result["executionTime"] = execution_time
with_execution_time(result, t) ==
    [k \in DOMAIN result \cup {"executionTime"} |->
        IF k = "executionTime" THEN t ELSE result[k]]

(***************************************************************************)
(* Document-operation parser                                               *)
(***************************************************************************)
Quotes == {"\"", "'"}

\* one match of r'(\w+)=(?:"([^"]*)"|\'([^\']*)\'|(\S+))' starting at position i:
\* the key is the run of \w that ends at the '=', the value is quoted by the next
\* quote of the same kind when there is one, else the run of non-whitespace
kv_match(s, i) ==
    LET ke == RunEnd(s, i, WordChars)
        v  == ke + 2
        closing(q) == {j \in (v + 1)..Len(s) : s[j] = q}
        none == [ok |-> FALSE, key |-> <<>>, value |-> <<>>, end |-> i]
    IN  IF ~(ke >= i /\ ke + 1 <= Len(s) /\ s[ke + 1] = "=" /\ v <= Len(s))
        THEN none
        ELSE IF s[v] \in Quotes /\ closing(s[v]) # {}
        THEN [ok |-> TRUE, key |-> SubSeq(s, i, ke),
              value |-> SubSeq(s, v + 1, Min(closing(s[v])) - 1),
              end |-> Min(closing(s[v]))]
        ELSE IF s[v] \notin Whitespace
        THEN [ok |-> TRUE, key |-> SubSeq(s, i, ke),
              value |-> SubSeq(s, v, RunEndNot(s, v, Whitespace)),
              end |-> RunEndNot(s, v, Whitespace)]
        ELSE none

\* re.findall of the pattern from position i on, as <<key, value>> pairs in order
RECURSIVE kv_findall(_, _)
kv_findall(s, i) ==
    IF i > Len(s) THEN <<>>
    ELSE IF kv_match(s, i).ok
    THEN <<<<kv_match(s, i).key, kv_match(s, i).value>>>> \o kv_findall(s, kv_match(s, i).end + 1)
    ELSE kv_findall(s, i + 1)

\* the dict filled by data[key] = value over the matches: a later match of a key
\* replaces an earlier one
as_dict_of(pairs) ==
    {pairs[i] : i \in {k \in DOMAIN pairs :
                        \A m \in DOMAIN pairs : m > k => pairs[m][1] # pairs[k][1]}}

\* lines 430-439 and 493-501: the data after the keyword, when the command holds it
parse_data(command, keyword) ==
    IF contains(command, keyword)
    THEN as_dict_of(kv_findall(strip(after_first(command, keyword)), 1))
    ELSE {}

no_api_call == <<>>

\* _handle_create_command
handle_create_command(command, outcome, t) ==
    LET parts == split(command)
    IN  IF Len(parts) < 2
        THEN [result |-> error_result("Invalid create command format", t), api |-> no_api_call]
        ELSE [result |-> with_execution_time(create_document(parts[2], outcome), t),
              api |-> <<api_call("create", parts[2], <<>>, parse_data(command, KW_WITH), <<>>, 0)>>]

\* _handle_read_command
handle_read_command(command, outcome, t) ==
    LET parts == split(command)
    IN  IF Len(parts) < 2
        THEN [result |-> error_result("Invalid read command format", t), api |-> no_api_call]
        ELSE IF Len(parts) >= 3 /\ ~startswith(parts[3], KW_WHERE)
        THEN [result |-> with_execution_time(
                            get_document(parts[2], strip_chars(parts[3], Quotes), outcome), t),
              api |-> <<api_call("get", parts[2], strip_chars(parts[3], Quotes), {}, <<>>, 0)>>]
        ELSE [result |-> with_execution_time(list_documents(parts[2], outcome), t),
              api |-> <<api_call("list", parts[2], <<>>, {}, <<>>, 10)>>]

\* _handle_update_command
handle_update_command(command, outcome, t) ==
    LET parts == split(command)
    IN  IF Len(parts) < 4
        THEN [result |-> error_result("Invalid update command format", t), api |-> no_api_call]
        ELSE [result |-> with_execution_time(
                            update_document(parts[2], strip_chars(parts[3], Quotes), outcome), t),
              api |-> <<api_call("update", parts[2], strip_chars(parts[3], Quotes),
                                 parse_data(command, KW_SET), <<>>, 0)>>]

\* _handle_delete_command
handle_delete_command(command, outcome, t) ==
    LET parts == split(command)
    IN  IF Len(parts) < 3
        THEN [result |-> error_result("Invalid delete command format", t), api |-> no_api_call]
        ELSE [result |-> with_execution_time(
                            delete_document(parts[2], strip_chars(parts[3], Quotes), outcome), t),
              api |-> <<api_call("delete", parts[2], strip_chars(parts[3], Quotes), {}, <<>>, 0)>>]

\* line 545: the search term
search_term(command) == strip_chars(strip(after_first(command, KW_FOR)), Quotes)

\* _handle_list_command
handle_list_command(command, outcome, t) ==
    LET parts == split(command)
    IN  IF Len(parts) < 2
        THEN [result |-> error_result("Invalid list command format", t), api |-> no_api_call]
        ELSE IF startswith(lower(command), KW_SEARCH) /\ contains(command, KW_FOR)
        THEN [result |-> with_execution_time(search_documents(parts[2], outcome), t),
              api |-> <<api_call("search", parts[2], <<>>, {}, search_term(command), 10)>>]
        ELSE [result |-> with_execution_time(list_documents(parts[2], outcome), t),
              api |-> <<api_call("list", parts[2], <<>>, {}, <<>>, 20)>>]

starts_with_any(s, patterns) == \E p \in patterns : startswith(s, p)

\* _execute_api_command
execute_api_command(command, outcome, t) ==
    LET command_lower == strip(lower(command))
    IN  IF starts_with_any(command_lower, create_patterns)
        THEN handle_create_command(command, outcome, t)
        ELSE IF starts_with_any(command_lower, read_patterns)
        THEN handle_read_command(command, outcome, t)
        ELSE IF starts_with_any(command_lower, update_patterns)
        THEN handle_update_command(command, outcome, t)
        ELSE IF starts_with_any(command_lower, delete_patterns)
        THEN handle_delete_command(command, outcome, t)
        ELSE IF starts_with_any(command_lower, list_patterns)
        THEN handle_list_command(command, outcome, t)
        ELSE [result |-> error_result("API command not recognized", t), api |-> no_api_call]

SqlCommands ==
    { <<"S","E","L","E","C","T"," ","*"," ","F","R","O","M"," ","x">>   \* 'SELECT * FROM x'
    , <<"s","e","l","e","c","t"," ","1">>   \* 'select 1'
    , <<" "," ","S","h","o","w"," ","t","a","b","l","e","s"," ">>   \* '  Show tables '
    , <<"D","E","S","C","R","I","B","E"," ","t">>   \* 'DESCRIBE t'
    , <<"d","e","s","c"," ","t">>   \* 'desc t'
    , <<"E","X","P","L","A","I","N"," ","q">>   \* 'EXPLAIN q'
    , <<"I","N","S","E","R","T"," ","I","N","T","O"," ","t">>   \* 'INSERT INTO t'
    , <<"U","P","D","A","T","E"," ","t"," ","S","E","T"," ","a","=","1">>   \* 'UPDATE t SET a=1'
    , <<"d","e","l","e","t","e"," ","f","r","o","m"," ","t">>   \* 'delete from t'
    , <<"C","R","E","A","T","E"," ","T","A","B","L","E"," ","t">>   \* 'CREATE TABLE t'
    , <<"D","R","O","P"," ","T","A","B","L","E"," ","t">>   \* 'DROP TABLE t'
    , <<"A","L","T","E","R"," ","T","A","B","L","E"," ","t">>   \* 'ALTER TABLE t'
    , <<"T","R","U","N","C","A","T","E"," ","t">>   \* 'TRUNCATE t'
    , <<"R","E","P","L","A","C","E"," ","I","N","T","O"," ","t">>   \* 'REPLACE INTO t'
    , <<"M","E","R","G","E"," ","I","N","T","O"," ","t">>   \* 'MERGE INTO t'
    , <<"C","A","L","L"," ","p","(",")">>   \* 'CALL p()'
    , <<"E","X","E","C","U","T","E"," ","p">>   \* 'EXECUTE p'
    , <<"W","I","T","H"," ","c">>   \* 'WITH c'
    , <<"U","N","I","O","N"," ","x">>   \* 'UNION x'
    , <<"J","O","I","N"," ","x">>   \* 'JOIN x'
    , <<"c","r","e","a","t","e"," ","C","u","s","t","o","m","e","r"," ","w","i","t","h"," ","c","u","s","t","o","m","e","r","_","n","a","m","e","=","\"","A","B","C","\""," ","a","n","d"," ","c","u","s","t","o","m","e","r","_","t","y","p","e","=","\"","C","o","m","p","a","n","y","\"">>   \* 'create Customer with customer_name="ABC" and customer_type="Company"'
    , <<"i","n","s","e","r","t"," ","I","t","e","m"," ","w","i","t","h"," ","i","t","e","m","_","c","o","d","e","=","A","1">>   \* 'insert Item with item_code=A1'
    , <<"u","p","d","a","t","e"," ","C","u","s","t","o","m","e","r"," ","\"","C","1","\""," ","s","e","t"," ","c","u","s","t","o","m","e","r","_","n","a","m","e","=","\"","N","\"">>   \* 'update Customer "C1" set customer_name="N"'
    , <<"d","e","l","e","t","e"," ","C","u","s","t","o","m","e","r"," ","\"","C","1","\"">>   \* 'delete Customer "C1"'
    , <<"u","p","d","a","t","e"," ","C","u","s","t","o","m","e","r"," ","C","1"," ","s","e","t"," ","s","t","a","t","u","s","=","O","p","e","n">>   \* 'update Customer C1 set status=Open'
    , <<"d","e","l","e","t","e"," ","C","u","s","t","o","m","e","r"," ","C","1">>   \* 'delete Customer C1'
    }

ApiCommands ==
    { <<"g","e","t"," ","C","u","s","t","o","m","e","r"," ","\"","C","U","S","T","-","0","0","0","0","1","\"">>   \* 'get Customer "CUST-00001"'
    , <<"g","e","t"," ","C","u","s","t","o","m","e","r"," ","C","1">>   \* 'get Customer C1'
    , <<"f","i","n","d"," ","C","u","s","t","o","m","e","r"," ","w","h","e","r","e"," ","a","=","1">>   \* 'find Customer where a=1'
    , <<"r","e","a","d"," ","C","u","s","t","o","m","e","r">>   \* 'read Customer'
    , <<"f","e","t","c","h">>   \* 'fetch'
    , <<"l","i","s","t"," ","C","u","s","t","o","m","e","r">>   \* 'list Customer'
    , <<"l","i","s","t"," ","F","i","l","e">>   \* 'list File'
    , <<"L","I","S","T"," ","I","t","e","m">>   \* 'LIST Item'
    , <<"s","e","a","r","c","h"," ","C","u","s","t","o","m","e","r"," ","f","o","r"," ","A","B","C">>   \* 'search Customer for ABC'
    , <<"s","e","a","r","c","h"," ","W","o","r","k","f","o","r","c","e"," ","f","o","r"," ","A","B","C">>   \* 'search Workforce for ABC'
    , <<"s","e","a","r","c","h"," ","C","u","s","t","o","m","e","r">>   \* 'search Customer'
    , <<"s","e","a","r","c","h"," ","C","u","s","t","o","m","e","r"," ","f","o","r"," ","P","l","a","t","f","o","r","m">>   \* 'search Customer for Platform'
    , <<"n","e","w"," ","C","u","s","t","o","m","e","r"," ","w","i","t","h"," ","c","u","s","t","o","m","e","r","_","n","a","m","e","=","A","B","C"," ","a","n","d"," ","c","u","s","t","o","m","e","r","_","t","y","p","e","=","C","o","m","p","a","n","y">>   \* 'new Customer with customer_name=ABC and customer_type=Company'
    , <<"n","e","w"," ","C","u","s","t","o","m","e","r"," ","w","i","t","h"," ","c","u","s","t","o","m","e","r","_","n","a","m","e","=","\"","A","B","C","\"">>   \* 'new Customer with customer_name="ABC"'
    , <<"n","e","w"," ","C","u","s","t","o","m","e","r">>   \* 'new Customer'
    , <<"n","e","w"," ","I","t","e","m"," ","w","i","t","h">>   \* 'new Item with'
    , <<"m","o","d","i","f","y"," ","C","u","s","t","o","m","e","r"," ","C","1"," ","s","e","t"," ","s","t","a","t","u","s","=","O","p","e","n">>   \* 'modify Customer C1 set status=Open'
    , <<"m","o","d","i","f","y"," ","C","u","s","t","o","m","e","r"," ","C","1">>   \* 'modify Customer C1'
    , <<"m","o","d","i","f","y"," ","C","u","s","t","o","m","e","r"," ","s","e","t"," ","s","t","a","t","u","s","=","O","p","e","n">>   \* 'modify Customer set status=Open'
    , <<"e","d","i","t"," ","C","u","s","t","o","m","e","r"," ","C","1"," ","s","t","a","t","u","s","=","O","p","e","n"," ","n","o","w">>   \* 'edit Customer C1 status=Open now'
    , <<"e","d","i","t"," ","A","s","s","e","t"," ","A","1"," ","s","e","t"," ","s","t","a","t","u","s","=","O","p","e","n">>   \* 'edit Asset A1 set status=Open'
    , <<"r","e","m","o","v","e"," ","C","u","s","t","o","m","e","r"," ","C","1">>   \* 'remove Customer C1'
    , <<"r","e","m","o","v","e"," ","C","u","s","t","o","m","e","r">>   \* 'remove Customer'
    }

BenchCommands ==
    { <<"b","e","n","c","h"," ","m","i","g","r","a","t","e">>   \* 'bench migrate'
    , <<"v","e","r","s","i","o","n","\n">>   \* 'version' and a line break
    , <<"b","e","n","c","h"," ","v","e","r","s","i","o","n">>   \* 'bench version'
    , <<"v","e","r","s","i","o","n">>   \* 'version'
    , <<"l","i","s","t","-","a","p","p","s">>   \* 'list-apps'
    , <<"b","e","n","c","h"," ","-","-","h","e","l","p">>   \* 'bench --help'
    , <<"b","e","n","c","h"," ","-","-","s","i","t","e"," ","s","2"," ","m","i","g","r","a","t","e">>   \* 'bench --site s2 migrate'
    , <<"b","e","n","c","h"," ","-","-","s","i","t","e"," ","s","2"," ","v","e","r","s","i","o","n">>   \* 'bench --site s2 version'
    , <<"b","e","n","c","h"," ","-","-","s","i","t","e"," ","s","2"," ","-","-","s","i","t","e"," ","s","3"," ","m","i","g","r","a","t","e">>   \* 'bench --site s2 --site s3 migrate'
    , <<"b","e","n","c","h"," ","-","-","s","i","t","e">>   \* 'bench --site'
    , <<"b","e","n","c","h"," ","f","r","o","b","n","i","c","a","t","e">>   \* 'bench frobnicate'
    , <<"b","e","n","c","h"," ","v","e","r","s","i","o","n",";"," ","l","s">>   \* 'bench version; ls'
    , <<"b","e","n","c","h"," ","g","e","t","-","d","o","c"," ","x">>   \* 'bench get-doc x'
    , <<"b","e","n","c","h"," ","e","x","e","c","u","t","e"," ","f","r","a","p","p","e",".","i","n","i","t">>   \* 'bench execute frappe.init'
    }

OtherCommands ==
    { <<>>   \* ''
    , <<" "," "," ">>   \* '   '
    , <<"h","e","l","l","o"," ","w","o","r","l","d">>   \* 'hello world'
    , <<"r","m"," ","-","r","f"," ","x">>   \* 'rm -rf x'
    , <<"l","s"," ","|"," ","w","c"," ",">"," ","x">>   \* 'ls | wc > x'
    , <<"B","e","n","c","h"," ","v","e","r","s","i","o","n">>   \* 'Bench version'
    , <<"s","e","l","e","c","t","x"," ","1">>   \* 'selectx 1'
    , <<"m","i","g","r","a","t","e">>   \* 'migrate'
    }

(***************************************************************************)
(* The gateway as a state machine                                          *)
(***************************************************************************)
\* the elapsed milliseconds an invocation can measure, and the rows a query returns
MaxElapsed == 1

MaxRows == 1

Commands == SqlCommands \cup ApiCommands \cup BenchCommands \cup OtherCommands

\* the sets of backend calls that raise in one invocation
DbFaults == {{}, {"begin"}, {"sql"}, {"sql", "rollback"}, {"commit"}, {"row_count"}}

SiteNames == {DEFAULT_SITE, <<"s","2">>}

VARIABLES
    safe_mode,        \* self.safe_mode of the executor in use
    site_name,        \* self.site_name of the executor in use
    settings,         \* the AI Assistant Settings single
    pc,               \* "idle", or "returned" when execute_command has returned
    command,          \* the command of the invocation that returned
    force_execute,    \* its force_execute
    result,           \* the dict it returned
    db_calls,         \* its calls of frappe.db, in order
    api_calls,        \* its calls of the document service
    proc_calls,       \* its calls of subprocess.run
    kind,             \* the branch of execute_command it took
    settings_reads,   \* what its reads of the settings single returned
    policy_history    \* observer of SpecPolicy: the settings single as it was at the
                      \* last invocation made through the executor in use, <<>>
                      \* before the first; the other specifications leave it empty

VARIABLES
    messages,         \* the AI Chat Message records: message name -> its session
    message_count,    \* the stored message_count of each AI Chat Session
    settings_doc,     \* an AI Assistant Settings document in memory
    validated,        \* <<>>, or what its validate() was given and how it ended
    requests          \* the web requests that insert or delete a message side by
                      \* side: where each one is and what it has read so far

\* the records of the chat doctypes, and the document validate() works on
chat_vars == <<messages, message_count, requests>>

doc_vars == <<settings_doc, validated>>

vars == <<safe_mode, site_name, settings, pc, command, force_execute, result,
          db_calls, api_calls, proc_calls, kind, settings_reads, policy_history,
          messages, message_count, settings_doc, validated, requests>>

gateway_vars == <<safe_mode, site_name, settings, pc, command, force_execute, result,
                  db_calls, api_calls, proc_calls, kind, settings_reads, policy_history>>

NoResult == [none |-> TRUE]

\* what one invocation leaves: the branch taken, the result, the calls made on each
\* backend and what its reads of the settings returned
outcome_of(branch, res, db, api, proc, reads) ==
    [kind |-> branch, result |-> res, db |-> db, api |-> api, proc |-> proc,
     reads |-> reads]

\* an invocation that ends with _error_result before any backend is called
rejected(branch, message, t) ==
    outcome_of(branch, error_result(message, t), <<>>, <<>>, <<>>, <<>>)

\* lines 113-116 with document operations exempted like SQL
screen_exempting_document_operations(cmd) ==
    IF is_sql_command(cmd) \/ is_api_command(cmd)
    THEN {[safe |-> TRUE, reason |-> ""]}
    ELSE perform_security_checks(cmd)

\* lines 113-116: SQL commands skip the screener
screen(cmd) ==
    IF is_sql_command(cmd)
    THEN {[safe |-> TRUE, reason |-> ""]}
    ELSE perform_security_checks(cmd)

\* line 120: the SQL engine, with every fault of the settings and of the backend
dispatch_sql(cmd, force, t) ==
    LET run(readable, faults, rows) ==
            execute_sql_command(cmd, force,
                read_confirm_setting(settings.confirm_sql_operations, readable),
                faults, rows, t)
    IN  {outcome_of("sql", run(rd, fl, n).result, run(rd, fl, n).db, <<>>, <<>>,
                    run(rd, fl, n).reads)
            : rd \in BOOLEAN, fl \in DbFaults, n \in 0..MaxRows}

\* line 122: the document-operation parser, with every outcome of the store
dispatch_api(cmd, t) ==
    {outcome_of("api", execute_api_command(cmd, o, t).result, <<>>,
                execute_api_command(cmd, o, t).api, <<>>, <<>>) : o \in ApiOutcomes}

\* line 126 without the safe mode test of lines 124-125
dispatch_bench_ignoring_safe_mode(cmd, t) ==
    {outcome_of("bench",
                execute_bench_command(cmd, site_name, DefaultTimeout, o, t).result,
                <<>>, <<>>,
                execute_bench_command(cmd, site_name, DefaultTimeout, o, t).proc,
                <<>>)
        : o \in ProcOutcomes}

\* lines 124-126: the tool gate, closed in safe mode, with every outcome of the runner
dispatch_bench(cmd, t) ==
    IF safe_mode
    THEN {rejected("bench", "Bench commands disabled in safe mode", t)}
    ELSE {outcome_of("bench",
                     execute_bench_command(cmd, site_name, DefaultTimeout, o, t).result,
                     <<>>, <<>>,
                     execute_bench_command(cmd, site_name, DefaultTimeout, o, t).proc,
                     <<>>)
             : o \in ProcOutcomes}

\* lines 119-128 with the tests of lines 119 and 121 in the other order
dispatch_document_operations_first(cmd, force, t) ==
    IF is_api_command(cmd) THEN dispatch_api(cmd, t)
    ELSE IF is_sql_command(cmd) THEN dispatch_sql(cmd, force, t)
    ELSE IF is_bench_command(cmd) THEN dispatch_bench(cmd, t)
    ELSE {rejected("unrecognized", "Command type not recognized or not allowed", t)}

\* lines 119-128 with the elif of line 121 turned into an if that also runs
dispatch_without_elif(cmd, force, t) ==
    IF is_sql_command(cmd) /\ is_api_command(cmd)
    THEN {outcome_of("sql", a.result, s.db, a.api, <<>>, s.reads)
             : s \in dispatch_sql(cmd, force, t), a \in dispatch_api(cmd, t)}
    ELSE IF is_sql_command(cmd) THEN dispatch_sql(cmd, force, t)
    ELSE IF is_api_command(cmd) THEN dispatch_api(cmd, t)
    ELSE IF is_bench_command(cmd) THEN dispatch_bench(cmd, t)
    ELSE {rejected("unrecognized", "Command type not recognized or not allowed", t)}

\* lines 119-128: the dispatch of a command that passed the checks
dispatch(cmd, force, t) ==
    IF is_sql_command(cmd) THEN dispatch_sql(cmd, force, t)
    ELSE IF is_api_command(cmd) THEN dispatch_api(cmd, t)
    ELSE IF is_bench_command(cmd) THEN dispatch_bench(cmd, t)
    ELSE {rejected("unrecognized", "Command type not recognized or not allowed", t)}

\* execute_command: every way one invocation can end
execute_command(c, force, t) ==
    IF c = <<>>
    THEN {rejected("invalid", "Invalid command", t)}
    ELSE IF strip(c) = <<>>
    THEN {rejected("invalid", "Empty command", t)}
    ELSE UNION {IF ~v.safe
                THEN {rejected("screened", v.reason, t)}
                ELSE dispatch(strip(c), force, t)
                : v \in screen(strip(c))}

\* the sessions that exist, and the names a message can get
Sessions == {"session 1", "session 2"}

MaxMessages == 3

MessageNames == 1..MaxMessages

\* the requests that can run side by side, and a request that has not started
Requests == {"request 1", "request 2"}

NoRequest ==
    [pc |-> "idle", op |-> "none", message |-> 0, session |-> "", loaded |-> 0,
     counted |-> 0]

\* frappe.new_doc("AI Assistant Settings") with nothing set
NewSettingsDoc ==
    [provider |-> "", ollama_url |-> <<>>, ollama_model |-> "", openai_model |-> ""]

Init ==
    /\ messages = <<>>
    /\ message_count = [s \in Sessions |-> 0]
    /\ settings_doc = NewSettingsDoc
    /\ validated = <<>>
    /\ requests = [r \in Requests |-> NoRequest]
    /\ safe_mode = TRUE
    /\ site_name = DEFAULT_SITE
    /\ settings = [safe_mode |-> TRUE, confirm_sql_operations |-> TRUE,
                   site_name |-> DEFAULT_SITE]
    /\ pc = "idle"
    /\ command = <<>>
    /\ force_execute = FALSE
    /\ result = NoResult
    /\ db_calls = <<>>
    /\ api_calls = <<>>
    /\ proc_calls = <<>>
    /\ kind = "none"
    /\ settings_reads = <<>>
    /\ policy_history = <<>>

\* a caller invokes execute_command(c, force) and the call returns
Invocation(c, force) ==
    /\ pc = "idle"
    /\ \E t \in 0..MaxElapsed :
        \E o \in execute_command(c, force, t) :
            /\ result' = o.result
            /\ db_calls' = o.db
            /\ api_calls' = o.api
            /\ proc_calls' = o.proc
            /\ kind' = o.kind
            /\ settings_reads' = o.reads
    /\ command' = c
    /\ force_execute' = force
    /\ pc' = "returned"
    /\ UNCHANGED <<safe_mode, site_name, settings, chat_vars, doc_vars>>

ExecuteCommand(c, force) == Invocation(c, force) /\ UNCHANGED policy_history

\* the same invocation, with the observer noting the settings in force
ExecuteCommandObserved(c, force) == Invocation(c, force) /\ policy_history' = <<settings>>

\* the caller has the result; nothing of the invocation is kept by the gateway
Return ==
    /\ pc = "returned"
    /\ pc' = "idle"
    /\ command' = <<>>
    /\ force_execute' = FALSE
    /\ result' = NoResult
    /\ db_calls' = <<>>
    /\ api_calls' = <<>>
    /\ proc_calls' = <<>>
    /\ kind' = "none"
    /\ settings_reads' = <<>>
    /\ UNCHANGED <<safe_mode, site_name, settings, policy_history, chat_vars, doc_vars>>

\* get_executor, lines 690-699: the safe mode the executor is constructed with;
\* stored is settings.safe_mode, read only when no override is given, and a read
\* that raises ends in the except branch
get_executor_safe_mode(override, stored, readable) ==
    IF override = "None"
    THEN (IF readable THEN stored ELSE TRUE)
    ELSE override = "True"

\* get_executor(safe_mode) and the constructor it calls: override is "None", "True"
\* or "False"; each of the two reads of the settings may raise
GetExecutor(override, readable, site_readable) ==
    /\ pc = "idle"
    /\ safe_mode' = get_executor_safe_mode(override, settings.safe_mode, readable)
    /\ site_name' = IF site_readable THEN settings.site_name ELSE DEFAULT_SITE
    /\ policy_history' = <<>>
    /\ UNCHANGED <<settings, pc, command, force_execute, result, db_calls, api_calls,
                   proc_calls, kind, settings_reads, chat_vars, doc_vars>>

\* an administrator saves the settings single with new values
SaveSettings(safe, confirm, site) ==
    /\ pc = "idle"
    /\ settings' = [safe_mode |-> safe, confirm_sql_operations |-> confirm,
                    site_name |-> site]
    /\ settings' # settings
    /\ UNCHANGED <<safe_mode, site_name, pc, command, force_execute, result, db_calls,
                   api_calls, proc_calls, kind, settings_reads, policy_history,
                   chat_vars, doc_vars>>

Next ==
    \/ \E c \in Commands, force \in BOOLEAN : ExecuteCommand(c, force)
    \/ Return
    \/ \E override \in {"None", "True", "False"}, readable \in BOOLEAN,
          site_readable \in BOOLEAN : GetExecutor(override, readable, site_readable)
    \/ \E safe \in BOOLEAN, confirm \in BOOLEAN, site \in SiteNames :
          SaveSettings(safe, confirm, site)

Spec == Init /\ [][Next]_vars

\* The gateway watched over several invocations of one executor: a tool command and
\* two SQL statements are enough to see which policy decided an invocation.
PolicyCommands ==
    { <<"v","e","r","s","i","o","n">>,
      <<"b","e","n","c","h"," ","v","e","r","s","i","o","n">>,
      <<"s","e","l","e","c","t"," ","1">>,
      <<"D","R","O","P"," ","T","A","B","L","E"," ","t">> }

NextPolicy ==
    \/ \E c \in PolicyCommands, force \in BOOLEAN : ExecuteCommandObserved(c, force)
    \/ Return
    \/ \E override \in {"None", "True", "False"}, readable \in BOOLEAN,
          site_readable \in BOOLEAN : GetExecutor(override, readable, site_readable)
    \/ \E safe \in BOOLEAN, confirm \in BOOLEAN, site \in SiteNames :
          SaveSettings(safe, confirm, site)

SpecPolicy == Init /\ [][NextPolicy]_vars

(***************************************************************************)
(* confirm_execute of api.py: the endpoint the user's confirmation calls.  *)
(* It builds its own executor, with the stored safe mode, and hands the    *)
(* command to execute_command.  The branch that executes is taken only     *)
(* when the stored safe mode is on, so the executor it builds has safe     *)
(* mode on, as every executor of this specification has.                   *)
(***************************************************************************)
\* what confirm_execute leaves when it raises before any command is executed
thrown(message) ==
    outcome_of("thrown", [thrown |-> message], <<>>, <<>>, <<>>, <<>>)

\* confirm_execute(message_id, command): every way the call can end; permitted is
\* the outcome of the permission checks of lines 158-166
confirm_execute(c, permitted, confirm_destructive, t) ==
    IF ~permitted
    THEN {thrown("Not permitted to execute commands")}
    ELSE IF settings.safe_mode /\ confirm_destructive
    THEN execute_command(c, FALSE, t)
    ELSE {thrown("Failed to execute command: Command execution not allowed in current configuration")}

\* a user confirms command c through confirm_execute and the call returns
ConfirmExecute(c, permitted, confirm_destructive, site_readable) ==
    /\ pc = "idle"
    /\ \E t \in 0..MaxElapsed :
        \E o \in confirm_execute(c, permitted, confirm_destructive, t) :
            /\ result' = o.result
            /\ db_calls' = o.db
            /\ api_calls' = o.api
            /\ proc_calls' = o.proc
            /\ kind' = o.kind
            /\ settings_reads' = o.reads
            /\ IF o.kind = "thrown"
               THEN UNCHANGED <<safe_mode, site_name>>
               ELSE /\ safe_mode' = settings.safe_mode
                    /\ site_name' = IF site_readable THEN settings.site_name
                                    ELSE DEFAULT_SITE
    /\ command' = c
    /\ force_execute' = FALSE
    /\ pc' = "returned"
    /\ UNCHANGED <<settings, policy_history, chat_vars, doc_vars>>

NextConfirm ==
    \/ \E c \in SqlCommands \cup PolicyCommands, permitted \in BOOLEAN,
          confirm_destructive \in BOOLEAN, site_readable \in BOOLEAN :
          ConfirmExecute(c, permitted, confirm_destructive, site_readable)
    \/ Return
    \/ \E safe \in BOOLEAN, confirm \in BOOLEAN, site \in SiteNames :
          SaveSettings(safe, confirm, site)

SpecConfirm == Init /\ [][NextConfirm]_vars

(***************************************************************************)
(* The chat doctypes: AI Chat Message keeps the message_count of its AI    *)
(* Chat Session up to date from its after_insert and on_trash hooks.       *)
(* Frappe calls after_insert once the row is in the table, and on_trash    *)
(* before delete_doc removes the row.                                      *)
(***************************************************************************)
\* frappe.db.count("AI Chat Message", {"session": name}) over the rows in table
count_messages(table, session) ==
    Cardinality({m \in DOMAIN table : table[m] = session})

\* update_message_count of the session, run while the table holds 'table'
update_message_count(counts, table, session) ==
    IF count_messages(table, session) # counts[session]
    THEN [counts EXCEPT ![session] = count_messages(table, session)]
    ELSE counts

\* message.insert() with a valid role: the row is written, then after_insert runs;
\* session is "" when the message names none
InsertMessage(m, session) ==
    /\ m \notin DOMAIN messages
    /\ messages' = [k \in DOMAIN messages \cup {m} |->
                        IF k = m THEN session ELSE messages[k]]
    /\ message_count' = IF session # ""
                        THEN update_message_count(message_count, messages', session)
                        ELSE message_count
    /\ UNCHANGED <<requests, gateway_vars, doc_vars>>

\* message.delete(): on_trash runs while the row is still in the table, then the
\* row is removed
DeleteMessage(m) ==
    /\ m \in DOMAIN messages
    /\ message_count' = IF messages[m] # ""
                        THEN update_message_count(message_count, messages, messages[m])
                        ELSE message_count
    /\ messages' = [k \in DOMAIN messages \ {m} |-> messages[k]]
    /\ UNCHANGED <<requests, gateway_vars, doc_vars>>

NextChat ==
    \/ \E m \in MessageNames, s \in Sessions \cup {""} : InsertMessage(m, s)
    \/ \E m \in MessageNames : DeleteMessage(m)

SpecChat == Init /\ [][NextChat]_vars

(***************************************************************************)
(* The same hooks run by requests side by side.  Each database call of a   *)
(* hook is one step: the row written by insert(), frappe.get_doc of the    *)
(* session, frappe.db.count, frappe.db.set_value, and the row removed by   *)
(* delete().  Nothing in the hooks locks the session between these calls.  *)
(***************************************************************************)
\* message.insert() of request r: the row is written; after_insert follows when
\* the message names a session (line 24)
BeginInsert(r, m, session) ==
    /\ requests[r].pc = "idle"
    /\ m \notin DOMAIN messages
    /\ messages' = [k \in DOMAIN messages \cup {m} |->
                        IF k = m THEN session ELSE messages[k]]
    /\ requests' = [requests EXCEPT ![r] =
                        [pc |-> IF session = "" THEN "done" ELSE "load",
                         op |-> "insert", message |-> m, session |-> session,
                         loaded |-> 0, counted |-> 0]]
    /\ UNCHANGED <<message_count, gateway_vars, doc_vars>>

\* message.delete() of request r: on_trash comes first, when the message names a
\* session (line 30); no other request is deleting the same message
BeginDelete(r, m) ==
    /\ requests[r].pc = "idle"
    /\ m \in DOMAIN messages
    /\ \A q \in Requests : ~(requests[q].op = "delete" /\ requests[q].message = m)
    /\ requests' = [requests EXCEPT ![r] =
                        [pc |-> IF messages[m] = "" THEN "remove" ELSE "load",
                         op |-> "delete", message |-> m, session |-> messages[m],
                         loaded |-> 0, counted |-> 0]]
    /\ UNCHANGED <<messages, message_count, gateway_vars, doc_vars>>

\* frappe.get_doc("AI Chat Session", self.session): the session as stored now
GetSession(r) ==
    /\ requests[r].pc = "load"
    /\ requests' = [requests EXCEPT ![r].pc = "count",
                                    ![r].loaded = message_count[requests[r].session]]
    /\ UNCHANGED <<messages, message_count, gateway_vars, doc_vars>>

\* line 27 of update_message_count: frappe.db.count over the rows as they are now
CountMessages(r) ==
    /\ requests[r].pc = "count"
    /\ requests' = [requests EXCEPT ![r].pc = "write",
                                    ![r].counted = count_messages(messages, requests[r].session)]
    /\ UNCHANGED <<messages, message_count, gateway_vars, doc_vars>>

\* lines 28-29 of update_message_count: set_value when the count differs from the
\* one on the loaded session
SetValue(r) ==
    /\ requests[r].pc = "write"
    /\ message_count' = IF requests[r].counted # requests[r].loaded
                        THEN [message_count EXCEPT ![requests[r].session] = requests[r].counted]
                        ELSE message_count
    /\ requests' = [requests EXCEPT ![r].pc =
                        IF requests[r].op = "insert" THEN "done" ELSE "remove"]
    /\ UNCHANGED <<messages, gateway_vars, doc_vars>>

\* delete_doc removes the row once on_trash has returned
RemoveRow(r) ==
    /\ requests[r].pc = "remove"
    /\ messages' = [k \in DOMAIN messages \ {requests[r].message} |-> messages[k]]
    /\ requests' = [requests EXCEPT ![r].pc = "done"]
    /\ UNCHANGED <<message_count, gateway_vars, doc_vars>>

NextChatConcurrent ==
    \/ \E r \in Requests, m \in MessageNames, s \in Sessions \cup {""} : BeginInsert(r, m, s)
    \/ \E r \in Requests, m \in MessageNames : BeginDelete(r, m)
    \/ \E r \in Requests : GetSession(r)
    \/ \E r \in Requests : CountMessages(r)
    \/ \E r \in Requests : SetValue(r)
    \/ \E r \in Requests : RemoveRow(r)

SpecChatConcurrent == Init /\ [][NextChatConcurrent]_vars

(***************************************************************************)
(* AI Assistant Settings: validate() of a document in memory               *)
(***************************************************************************)
HTTP_PREFIX == <<"h","t","t","p",":","/","/">>

HTTPS_PREFIX == <<"h","t","t","p","s",":","/","/">>

\* validate: how it ends ("completed", or the message frappe.throw raises with) and
\* the document it leaves
validate(doc) ==
    IF doc.provider = ""
    THEN [outcome |-> "AI Provider is required", doc |-> doc]
    ELSE IF doc.provider = "ollama"
    THEN IF doc.ollama_url = <<>>
         THEN [outcome |-> "Ollama URL is required", doc |-> doc]
         ELSE IF doc.ollama_model = ""
         THEN [outcome |-> "Ollama model is required when using Ollama provider",
               doc |-> doc]
         ELSE IF ~(startswith(doc.ollama_url, HTTP_PREFIX)
                   \/ startswith(doc.ollama_url, HTTPS_PREFIX))
         THEN [outcome |-> "completed",
               doc |-> [doc EXCEPT !.ollama_url = HTTP_PREFIX \o doc.ollama_url]]
         ELSE [outcome |-> "completed", doc |-> doc]
    ELSE IF doc.provider = "openai" /\ doc.openai_model = ""
    THEN [outcome |-> "OpenAI model is required when using OpenAI provider", doc |-> doc]
    ELSE [outcome |-> "completed", doc |-> doc]

\* the documents validate() is called on
Providers == {"", "ollama", "openai", "anthropic"}

OllamaUrls ==
    { <<>>,
      <<"l","o","c","a","l","h","o","s","t",":","1","1","4","3","4">>,
      <<"h","t","t","p",":","/","/","h">>,
      <<"h","t","t","p","s",":","/","/","h">>,
      <<"H","T","T","P",":","/","/","h">>,
      <<"h","t","t","p",":","/","h">> }

SettingsDocs ==
    [provider : Providers, ollama_url : OllamaUrls, ollama_model : {"", "llama2"},
     openai_model : {"", "gpt-4"}]

\* a caller sets the fields of the document
SetFields(doc) ==
    /\ validated = <<>>
    /\ settings_doc = NewSettingsDoc
    /\ doc # NewSettingsDoc
    /\ settings_doc' = doc
    /\ UNCHANGED <<validated, gateway_vars, chat_vars>>

\* settings.validate()
Validate ==
    /\ validated = <<>>
    /\ settings_doc' = validate(settings_doc).doc
    /\ validated' = <<[given |-> settings_doc, outcome |-> validate(settings_doc).outcome]>>
    /\ UNCHANGED <<gateway_vars, chat_vars>>

NextSettings ==
    \/ \E doc \in SettingsDocs : SetFields(doc)
    \/ Validate

SpecSettings == Init /\ [][NextSettings]_vars

(***************************************************************************)
(* Properties.  The vocabulary of the specification document: its keyword  *)
(* sets, and what it calls a command's leading keyword.                    *)
(***************************************************************************)
SpecSqlKeywords ==
    { <<"S","E","L","E","C","T">>   \* SELECT
    , <<"I","N","S","E","R","T">>   \* INSERT
    , <<"U","P","D","A","T","E">>   \* UPDATE
    , <<"D","E","L","E","T","E">>   \* DELETE
    , <<"C","R","E","A","T","E">>   \* CREATE
    , <<"D","R","O","P">>   \* DROP
    , <<"A","L","T","E","R">>   \* ALTER
    , <<"T","R","U","N","C","A","T","E">>   \* TRUNCATE
    , <<"S","H","O","W">>   \* SHOW
    , <<"D","E","S","C","R","I","B","E">>   \* DESCRIBE
    , <<"D","E","S","C">>   \* DESC
    , <<"E","X","P","L","A","I","N">>   \* EXPLAIN
    , <<"R","E","P","L","A","C","E">>   \* REPLACE
    , <<"M","E","R","G","E">>   \* MERGE
    , <<"C","A","L","L">>   \* CALL
    , <<"E","X","E","C","U","T","E">>   \* EXECUTE
    , <<"W","I","T","H">>   \* WITH
    , <<"U","N","I","O","N">>   \* UNION
    , <<"J","O","I","N">>   \* JOIN
    }

SpecReadKeywords ==
    { <<"S","E","L","E","C","T">>   \* SELECT
    , <<"S","H","O","W">>   \* SHOW
    , <<"D","E","S","C","R","I","B","E">>   \* DESCRIBE
    , <<"D","E","S","C">>   \* DESC
    , <<"E","X","P","L","A","I","N">>   \* EXPLAIN
    }

SpecMutatingKeywords ==
    { <<"I","N","S","E","R","T">>   \* INSERT
    , <<"U","P","D","A","T","E">>   \* UPDATE
    , <<"D","E","L","E","T","E">>   \* DELETE
    , <<"C","R","E","A","T","E">>   \* CREATE
    , <<"D","R","O","P">>   \* DROP
    , <<"A","L","T","E","R">>   \* ALTER
    , <<"T","R","U","N","C","A","T","E">>   \* TRUNCATE
    , <<"R","E","P","L","A","C","E">>   \* REPLACE
    , <<"M","E","R","G","E">>   \* MERGE
    , <<"C","A","L","L">>   \* CALL
    , <<"E","X","E","C","U","T","E">>   \* EXECUTE
    }

\* an invocation has returned for a command that holds more than whitespace
Submitted == pc = "returned" /\ strip(command) # <<>>

same_ignoring_case(a, b) ==
    Len(a) = Len(b) /\ \A i \in 1..Len(a) : lower_char(a[i]) = lower_char(b[i])

\* the first whitespace-delimited token of the command is, whatever its case, in K
leading_keyword_in(K) ==
    \E k \in K : same_ignoring_case(split(command)[1], k)

\* the calls of the backend's execute in the invocation
executions == {i \in DOMAIN db_calls : db_calls[i].op = "sql"}

confirmation_pending ==
    "requires_confirmation" \in DOMAIN result /\ result.requires_confirmation = TRUE

no_backend_invoked == db_calls = <<>> /\ api_calls = <<>> /\ proc_calls = <<>>

C2_ForcedReadExecutesOnce ==
    (/\ Submitted
     /\ leading_keyword_in(SpecReadKeywords)
     /\ force_execute
     /\ settings.confirm_sql_operations)
    => (/\ Cardinality(executions) = 1
        /\ \A i \in executions : db_calls[i].stmt = strip(command)
        /\ ~confirmation_pending)

C2_Witness ==
    /\ Submitted
    /\ leading_keyword_in({RE_SELECT})
    /\ force_execute
    /\ settings.confirm_sql_operations
    /\ result.success = TRUE
    /\ Cardinality(executions) = 1

\* C3: when the backend raises while it executes a statement whose leading keyword
\* is in the mutating set, rollback is called after it and before the invocation
\* returns, and the result has success = false.
C3_RollbackOnFailure ==
    (/\ Submitted
     /\ kind = "sql"
     /\ leading_keyword_in(SpecMutatingKeywords)
     /\ settings_reads # <<"raise">>)
    => \A i \in executions :
          (db_calls[i].stmt = strip(command) /\ db_calls[i].raised)
          => (/\ \E j \in DOMAIN db_calls : j > i /\ db_calls[j].op = "rollback"
              /\ result.success = FALSE)

\* the verb of a tool command: its first token after the tool prefix and after the
\* site option and site name that follow the prefix, <<>> when there is none
tool_verb ==
    LET tokens == split(command)
        args == IF tokens[1] = BENCH THEN Tail(tokens) ELSE tokens
        rest == IF Len(args) >= 2 /\ args[1] = SITE_OPTION
                THEN SubSeq(args, 3, Len(args))
                ELSE args
    IN  IF rest = <<>> THEN <<>> ELSE rest[1]

\* the command is a tool invocation: not SQL, not a document operation, and
\* either prefixed with the tool's name or a known command without arguments
tool_invocation ==
    /\ Submitted
    /\ kind \notin {"sql", "api"}
    /\ ~is_sql_command(strip(command))
    /\ ~is_api_command(strip(command))
    /\ is_bench_command(strip(command))

has_shell_metacharacter ==
    \E i \in DOMAIN strip(command) : strip(command)[i] \in SHELL_METACHARACTERS

\* the reasons with which the screener rejects the command
screener_reasons ==
    {v.reason : v \in {w \in perform_security_checks(strip(command)) : ~w.safe}}

rejected_by_screener ==
    kind = "screened" /\ result.success = FALSE /\ result.error \in screener_reasons

GetCustomerQuoted == <<"g","e","t"," ","C","u","s","t","o","m","e","r"," ","\"","C","U","S","T","-","0","0","0","0","1","\"">>

\* C6: the screener is applied to tool invocations and unrecognized commands only: a
\* command classified DocumentOperation is never rejected by it, and
\* get Customer "CUST-00001" reaches the document store.
C6_DocumentOperationsNotScreened ==
    (/\ Submitted
     /\ ~is_sql_command(strip(command))
     /\ is_api_command(strip(command)))
    => (/\ ~rejected_by_screener
        /\ command = GetCustomerQuoted => api_calls # <<>>)

CreateCustomerQuoted ==
    <<"c","r","e","a","t","e"," ","C","u","s","t","o","m","e","r"," ","w","i","t","h"," ","c","u","s","t","o","m","e","r","_","n","a","m","e","=","\"","A","B","C","\""," ","a","n","d"," ","c","u","s","t","o","m","e","r","_","t","y","p","e","=","\"","C","o","m","p","a","n","y","\"">>

CreateCustomerCall ==
    api_call("create", <<"C","u","s","t","o","m","e","r">>, <<>>,
             { <<<<"c","u","s","t","o","m","e","r","_","n","a","m","e">>, <<"A","B","C">>>>,
               <<<<"c","u","s","t","o","m","e","r","_","t","y","p","e">>, <<"C","o","m","p","a","n","y">>>> },
             <<>>, 0)

\* C7: create Customer with customer_name="ABC" and customer_type="Company" is handled
\* as a Create: the store's create primitive is invoked, once, with entity type
\* Customer and the fields customer_name = ABC and customer_type = Company.
C7_CreateCommandParsed ==
    (Submitted /\ command = CreateCustomerQuoted) => api_calls = <<CreateCustomerCall>>

C10_ResultShape ==
    pc = "returned"
    => (/\ {"success", "output", "error", "executionTime"} \subseteq DOMAIN result
        /\ result.executionTime >= 0)

\* the backend calls of the invocation that raised
raised_calls == {i \in DOMAIN db_calls : db_calls[i].raised}

\* str(e) of the exception the i-th backend call raised
raised_message(i) ==
    IF db_calls[i].op = "sql" /\ db_calls[i].stmt = ROW_COUNT_QUERY
    THEN db_message("row_count")
    ELSE db_message(db_calls[i].op)

\* C11: execute_command returns a result, never an exception, for every command and
\* every fault of the query backend, the document store and the process runner; when
\* a call of the query backend raised, the result has success = false and its error
\* holds the message of the exception that reached the handler (the last one raised).
C11_FaultsBecomeResults ==
    pc = "returned"
    => /\ {"success", "executionTime"} \subseteq DOMAIN result
       /\ result.success \in BOOLEAN
       /\ raised_calls # {}
          => /\ result.success = FALSE
             /\ \E i \in raised_calls :
                   /\ \A j \in raised_calls : j <= i
                   /\ result.error = "SQL error: " \o raised_message(i)

C11_Witness ==
    /\ Submitted
    /\ kind = "sql"
    /\ Cardinality(raised_calls) = 2
    /\ result.success = FALSE
    /\ result.error = "SQL error: " \o db_message("rollback")

\* the backends the invocation called
backends_invoked ==
    {b \in {"db", "api", "proc"} :
        \/ b = "db" /\ db_calls # <<>>
        \/ b = "api" /\ api_calls # <<>>
        \/ b = "proc" /\ proc_calls # <<>>}

\* the command is none of SQL, document operation and tool invocation
classified_unrecognized ==
    /\ Submitted
    /\ ~is_sql_command(strip(command))
    /\ ~is_api_command(strip(command))
    /\ ~is_bench_command(strip(command))

\* C12: no invocation calls more than one of the three backends (query backend,
\* document store, process runner), and a command classified as none of the three
\* kinds is rejected with success = false and a non-empty error without any backend
\* being called.
C12_AtMostOneBackend ==
    pc = "returned"
    => /\ Cardinality(backends_invoked) <= 1
       /\ classified_unrecognized
          => /\ result.success = FALSE
             /\ result.error # ""
             /\ backends_invoked = {}

C12_Witness ==
    /\ classified_unrecognized
    /\ kind = "unrecognized"
    /\ ~safe_mode
    /\ result.success = FALSE
    /\ result.error = "Command type not recognized or not allowed"
    /\ backends_invoked = {}

\* an invocation through an executor that has served one before, the stored safe_mode
\* having changed since that earlier invocation
safe_mode_changed_since_last_invocation ==
    /\ pc = "idle" /\ pc' = "returned"
    /\ policy_history # <<>>
    /\ policy_history[1].safe_mode # settings.safe_mode

confirmation_changed_since_last_invocation ==
    /\ pc = "idle" /\ pc' = "returned"
    /\ policy_history # <<>>
    /\ policy_history[1].confirm_sql_operations # settings.confirm_sql_operations

\* C13: the policy is read again at every invocation: when safe_mode or
\* confirm_sql_operations was changed between two invocations made through the same
\* executor, the second is decided under the new value: with safe mode turned on the
\* next tool command is denied and no process is run; with confirmation turned on
\* the next unforced SQL command is confirmation-pending.
C13_PolicyReadAtEveryInvocation ==
    [][/\ (/\ safe_mode_changed_since_last_invocation
           /\ settings.safe_mode
           /\ kind' = "bench")
          => /\ result'.error = "Bench commands disabled in safe mode"
             /\ proc_calls' = <<>>
       /\ (/\ confirmation_changed_since_last_invocation
           /\ settings.confirm_sql_operations
           /\ kind' = "sql" /\ ~force_execute' /\ settings_reads' # <<"raise">>)
          => /\ "requires_confirmation" \in DOMAIN result'
             /\ db_calls' = <<>>
      ]_vars

\* the invocation reached the tool gate and the child process ran past the timeout
runner_timed_out ==
    /\ Submitted
    /\ kind = "bench"
    /\ \E i \in DOMAIN proc_calls : proc_calls[i].outcome.kind = "timeout"

\* C14: a tool invocation whose child process exceeds the timeout returns
\* success = false with the error "Command timed out", and no other failure path of
\* the tool gate (non-zero exit, disallowed verb, other exception) returns that error.
C14_TimeoutErrorDistinct ==
    (Submitted /\ kind = "bench")
    => /\ runner_timed_out
          => (result.success = FALSE /\ result.error = "Command timed out")
       /\ (result.success = FALSE /\ result.error = "Command timed out")
          => runner_timed_out

\* the runner's calls that failed: a timeout or an exit code other than 0
failed_runs ==
    {i \in DOMAIN proc_calls :
        \/ proc_calls[i].outcome.kind = "timeout"
        \/ proc_calls[i].outcome.kind = "exit" /\ proc_calls[i].outcome.returncode # 0}

\* the fields of a result, the error field apart, that can hold a captured stream
stream_fields == (DOMAIN result) \cap {"output", "stdout", "stderr"}

\* C15: when the process runner fails (exit code other than 0, or timeout) the result
\* has success = false and holds the captured stdout and the captured stderr in
\* fields other than error.
C15_StreamsKeptOnFailure ==
    (Submitted /\ kind = "bench")
    => \A i \in failed_runs :
          /\ result.success = FALSE
          /\ \E f \in stream_fields : result[f] = proc_calls[i].outcome.stdout
          /\ \E f \in stream_fields : result[f] = proc_calls[i].outcome.stderr

\* The grammar of the specification document, read off the tokens of the command:
\* <verb> <EntityType> [<Key>] [with|set k=v ...]
SpecCreateVerbs == {<<"c","r","e","a","t","e">>, <<"n","e","w">>, <<"i","n","s","e","r","t">>}

SpecUpdateVerbs == {<<"u","p","d","a","t","e">>, <<"m","o","d","i","f","y">>, <<"e","d","i","t">>}

SpecDeleteVerbs == {<<"d","e","l","e","t","e">>, <<"r","e","m","o","v","e">>}

\* the command is classified as a document operation
document_operation ==
    /\ Submitted
    /\ ~is_sql_command(strip(command))
    /\ is_api_command(strip(command))

verb_in(V) == \E v \in V : same_ignoring_case(split(command)[1], v)

\* a token of the form k=v with a key in front of the '='
is_pair(token) == \E i \in 2..Len(token) : token[i] = "="

\* the tokens after the entity type hold the set keyword / a key-value pair
has_set_clause == \E i \in 3..Len(split(command)) : split(command)[i] = KW_SET

has_pair == \E i \in 3..Len(split(command)) : is_pair(split(command)[i])

\* the third token is a key: it is there and is not the set keyword or a pair
has_key ==
    /\ Len(split(command)) >= 3
    /\ split(command)[3] # KW_SET
    /\ ~is_pair(split(command)[3])

malformed ==
    \/ Len(split(command)) < 2
    \/ verb_in(SpecUpdateVerbs) /\ (~has_key \/ ~has_set_clause \/ ~has_pair)
    \/ verb_in(SpecDeleteVerbs) /\ ~has_key
    \/ verb_in(SpecCreateVerbs) /\ ~has_pair

\* C16: a malformed document operation (no entity type, an update or delete without
\* key, an update without set clause or without key/value pair, a create without
\* key/value pair) returns success = false and no primitive of the document store
\* is called.
C16_MalformedRejected ==
    (document_operation /\ malformed)
    => (result.success = FALSE /\ api_calls = <<>>)

SpecReadVerbs == {<<"g","e","t">>, <<"r","e","a","d">>, <<"f","e","t","c","h">>, <<"f","i","n","d">>}

SpecListVerbs == {<<"l","i","s","t">>}

SpecSearchVerbs == {<<"s","e","a","r","c","h">>}

SpecVerbs ==
    SpecCreateVerbs \cup SpecReadVerbs \cup SpecUpdateVerbs \cup SpecDeleteVerbs
        \cup SpecListVerbs \cup SpecSearchVerbs

\* the command begins with one of the 14 verb phrases and names an entity type
begins_with_verb_phrase ==
    /\ Submitted
    /\ Len(split(command)) >= 2
    /\ verb_in(SpecVerbs)

\* a search names its term after the keyword for
well_formed ==
    /\ ~malformed
    /\ verb_in(SpecSearchVerbs)
        => \E i \in 3..(Len(split(command)) - 1) : split(command)[i] = KW_FOR

\* the primitive of the document store that matches the verb of the command
matching_primitive ==
    IF verb_in(SpecCreateVerbs) THEN "create"
    ELSE IF verb_in(SpecReadVerbs) THEN (IF has_key /\ split(command)[3] # KW_WHERE
                                         THEN "get" ELSE "list")
    ELSE IF verb_in(SpecUpdateVerbs) THEN "update"
    ELSE IF verb_in(SpecDeleteVerbs) THEN "delete"
    ELSE IF verb_in(SpecListVerbs) THEN "list"
    ELSE "search"

\* C17: every well-formed command that begins with one of the 14 verb phrases is
\* dispatched to the primitive of the document store that matches its verb, once:
\* update <EntityType> <Key> set k=v reaches update, delete <EntityType> <Key>
\* reaches delete.  (Commands the screener has a reason to reject, those with quoted
\* keys or values among them, are the case of C6 and are left aside here.)
C17_VerbReachesPrimitive ==
    (begins_with_verb_phrase /\ well_formed /\ screener_reasons = {})
    => /\ Len(api_calls) = 1
       /\ api_calls[1].op = matching_primitive
       /\ api_calls[1].doctype = split(command)[2]

\* C18: after any sequence of completed insertions and deletions of AI Chat Message
\* records, run one at a time, the stored message_count of every session equals the
\* number of message records that reference the session.
C18_MessageCountMatches ==
    \A s \in Sessions : message_count[s] = count_messages(messages, s)

\* C19: for a settings document whose ollama_url is set and starts with neither
\* http:// nor https://, whatever its other fields hold, validate() completes and
\* leaves ollama_url equal to the given value with http:// in front.
C19_UrlPrefixed ==
    (/\ validated # <<>>
     /\ validated[1].given.ollama_url # <<>>
     /\ \A i \in 1..Len(validated[1].given.ollama_url) :
            SubSeq(validated[1].given.ollama_url, 1, i) \notin {HTTP_PREFIX, HTTPS_PREFIX})
    => /\ validated[1].outcome = "completed"
       /\ settings_doc.ollama_url = HTTP_PREFIX \o validated[1].given.ollama_url

\* the positions in the log of the backend calls of one operation
calls_of(op) == {i \in DOMAIN db_calls : db_calls[i].op = op}

\* the statement was run: the invocation was forced or needed no confirmation
statement_run == Submitted /\ kind = "sql" /\ ~confirmation_pending

\* begin, then the statement, then commit: commit once, and only after the statement
\* succeeded
transaction_in_order ==
    /\ db_calls # <<>>
    /\ db_calls[1].op = "begin"
    /\ ~db_calls[1].raised
        => /\ Len(db_calls) >= 2
           /\ db_calls[2].op = "sql"
           /\ db_calls[2].stmt = strip(command)
           /\ IF db_calls[2].raised
              THEN calls_of("commit") = {}
              ELSE calls_of("commit") = {3}

\* C20: when forced or when no confirmation is required, a statement whose leading
\* keyword is in the mutating set runs in a transaction in the order begin,
\* statement, commit, with commit called exactly once and only after the statement
\* succeeded; a read statement calls none of begin, commit and rollback.
C20_TransactionOrder ==
    statement_run
    => /\ leading_keyword_in(SpecMutatingKeywords) => transaction_in_order
       /\ leading_keyword_in(SpecReadKeywords)
          => calls_of("begin") \cup calls_of("commit") \cup calls_of("rollback") = {}

\* the tokens left once the leading site option pairs (--site <name>) are skipped
RECURSIVE skip_site_pairs(_)
skip_site_pairs(tokens) ==
    IF Len(tokens) >= 2 /\ tokens[1] = SITE_OPTION
    THEN skip_site_pairs(SubSeq(tokens, 3, Len(tokens)))
    ELSE tokens

\* the verb the tool runs for an argv: the first token after the tool prefix that is
\* not part of a site option pair, <<>> when there is none
effective_verb(argv) ==
    LET rest == skip_site_pairs(Tail(argv))
    IN  IF rest = <<>> THEN <<>> ELSE rest[1]

\* the argv of each call of the process runner in the invocation
forwarded_argvs == {proc_calls[i].argv : i \in DOMAIN proc_calls}

\* the argv starts with the tool prefix, the site option and a site name
has_site_context(argv) ==
    /\ Len(argv) >= 4
    /\ argv[1] = BENCH
    /\ argv[2] = SITE_OPTION

\* C21: every argv forwarded to the process runner has the tool prefix first, then
\* the site option and a site name, and the token that was validated against the
\* blocked and allowed sets is the first token after that site context, which is
\* the verb the tool runs.
C21_ValidatedTokenIsVerb ==
    \A argv \in forwarded_argvs :
        /\ has_site_context(argv)
        /\ command_args(argv) # <<>>
        /\ command_args(argv)[1] = argv[4]
        /\ command_args(argv)[1] = effective_verb(argv)

\* the command has the form  search <EntityType> for <term>  with an unquoted term
search_command ==
    /\ Submitted
    /\ kind = "api"
    /\ Len(split(command)) = 4
    /\ split(command)[1] = KW_SEARCH
    /\ split(command)[3] = KW_FOR
    /\ \A i \in DOMAIN split(command)[4] : split(command)[4][i] \notin Quotes

\* C22: the command  search E for T  with an unquoted term T invokes the search
\* primitive of the document store once, with entity type E and search term exactly
\* T, also when E or T holds the letters "for".
C22_SearchTermExact ==
    search_command
    => /\ Len(api_calls) = 1
       /\ api_calls[1].op = "search"
       /\ api_calls[1].doctype = split(command)[2]
       /\ api_calls[1].term = split(command)[4]

\* the verdicts the screener can return for the command of the invocation, over
\* the processes that can run it
screener_verdicts == perform_security_checks(strip(command))

\* C23: the screener is deterministic: two screenings of the same command, in the
\* same process or in two, return the same verdict with the same reason; for a
\* command with two or more different shell metacharacters the character named in
\* the reason is the same on every run.
C23_ScreenerDeterministic ==
    (Submitted /\ kind = "screened")
    => /\ \A v, w \in screener_verdicts : v = w
       /\ screener_verdicts = {[safe |-> FALSE, reason |-> result.error]}

\* the statements the backend is given, in order, in each way an invocation of
\* execute_command(c, force_execute = True) can go
forced_statements(c) ==
    {[i \in DOMAIN o.db |-> o.db[i].stmt] :
        o \in UNION {execute_command(c, TRUE, t) : t \in 0..MaxElapsed}}

\* the results with which a forced invocation of c can return
forced_results(c) ==
    {o.result : o \in UNION {execute_command(c, TRUE, t) : t \in 0..MaxElapsed}}

\* C24: the command echoed in the confirmation-pending result of
\* execute_command(c, force = false), resubmitted with force = true, makes the
\* backend execute the same statement as execute_command(c, force = true) would,
\* and the resubmission never returns a confirmation-pending result.
C24_ConfirmationRoundTrip ==
    (Submitted /\ kind = "sql" /\ ~force_execute /\ confirmation_pending)
    => /\ forced_statements(result.command) = forced_statements(command)
       /\ \E s \in forced_statements(result.command) :
             \E i \in DOMAIN s : s[i] = strip(command)
       /\ \A s \in forced_statements(result.command) :
             \A i \in DOMAIN s : s[i] \in {<<>>, strip(command), ROW_COUNT_QUERY}
       /\ \A r \in forced_results(result.command) :
             "requires_confirmation" \notin DOMAIN r

C24_Witness ==
    /\ Submitted
    /\ kind = "sql"
    /\ ~force_execute
    /\ confirmation_pending
    /\ result.command # command
    /\ \E r \in forced_results(result.command) : r.success = TRUE
    /\ <<result.command>> \in forced_statements(result.command)

\* C25: no argv forwarded to the process runner has a blocked command as its
\* effective verb: the first token that is not part of a site option pair
\* (--site <name>) is not in the blocked set, whatever tokens the submitted command
\* holds, repeated --site options included.
C25_NoBlockedVerbForwarded ==
    \A argv \in forwarded_argvs : effective_verb(argv) \notin BLOCKED_ADMIN_COMMANDS

\* the calls of commit in the invocation that returned without raising
committed == {i \in calls_of("commit") : ~db_calls[i].raised}

\* C26: a failure result for a mutating statement means nothing was committed: when
\* the invocation returns success = false, commit was not called on the backend for
\* the statement, so no step after commit turns the outcome into an error.
C26_FailureMeansNotCommitted ==
    (/\ Submitted
     /\ kind = "sql"
     /\ leading_keyword_in(SpecMutatingKeywords)
     /\ result.success = FALSE)
    => committed = {}

\* C27: without force, a SQL statement reaches the query backend only when the
\* confirmation setting was read successfully and is off; when the read of the
\* settings fails the statement is not executed.
C27_ExecutesOnlyWhenSettingReadOff ==
    (Submitted /\ kind = "sql" /\ ~force_execute /\ db_calls # <<>>)
    => settings_reads = <<"off">>

\* C28: while the executor's safe mode is on, no invocation of execute_command
\* invokes the process runner: every command classified as a tool invocation that
\* passes screening returns success = false with the error "Bench commands disabled
\* in safe mode"; and an executor obtained through get_executor when the settings
\* cannot be read has safe mode on.
C28_SafeModeClosesToolGate ==
    /\ \A stored \in BOOLEAN : get_executor_safe_mode("None", stored, FALSE) = TRUE
    /\ (Submitted /\ safe_mode)
       => /\ proc_calls = <<>>
          /\ (tool_invocation /\ screener_reasons = {})
             => /\ kind = "bench"
                /\ result.success = FALSE
                /\ result.error = "Bench commands disabled in safe mode"

C28_Witness ==
    /\ Submitted
    /\ safe_mode
    /\ ~settings.safe_mode
    /\ tool_invocation
    /\ screener_reasons = {}
    /\ split(command)[1] = BENCH
    /\ result.error = "Bench commands disabled in safe mode"
    /\ proc_calls = <<>>

\* every request has finished, and each one was an insertion into session s
insertions_finished(s) ==
    \A r \in Requests :
        /\ requests[r].pc = "done"
        /\ requests[r].op = "insert"
        /\ requests[r].session = s

\* C29: when two or more insertions or deletions of AI Chat Message for the same
\* session run side by side, each one changing the message set, then counting the
\* messages, then writing message_count, then once all have finished the stored
\* message_count equals the number of messages of the session, under every
\* interleaving of their steps.  Stated here for insertions alone.
C29_CountAfterConcurrentRequests ==
    \A s \in Sessions :
        insertions_finished(s) => message_count[s] = count_messages(messages, s)

\* C30: a SQL command the user confirms through confirm_execute is executed: when
\* confirm_execute is permitted to run the command and SQL confirmation is on, the
\* gateway is invoked with the confirmation gate bypassed, so the call ends with
\* the statement executed against the query backend and not with another
\* confirmation-required result.
C30_ConfirmedCommandExecuted ==
    (/\ Submitted
     /\ kind = "sql"
     /\ settings.confirm_sql_operations)
    => /\ ~confirmation_pending
       /\ \E i \in executions : db_calls[i].stmt = strip(command)

====
